---------------------------- MODULE Spec2Model ----------------------------
(***************************************************************************)
(* Model of the DroneConroler repository.                                  *)
(*                                                                         *)
(*   Software/Common/Drone.py             formation controller (ROS node)  *)
(*   Software/Common/flight_controller.py single-vehicle DroneController   *)
(*                                                                         *)
(* Units.  Lengths are integers in centimetres (5.0 m = 500), velocities   *)
(* in millimetres per second (1.0 m/s = 1000), durations in tenths of a    *)
(* second (1.0 s = 10), altitudes of the single-vehicle controller in      *)
(* millimetres (the unit of GLOBAL_POSITION_INT.relative_alt).             *)
(*                                                                         *)
(* Drones are numbered 1..nDrones in registration order: drone k is        *)
(* self.drones[k-1].                                                       *)
(***************************************************************************)
EXTENDS Integers, Sequences, FiniteSets, TLC

(***************************************************************************)
(* Bounds of the model.                                                    *)
(***************************************************************************)
\* Most drones add_drone registers in a run.
MaxDrones == 3
\* Most move_formation calls in a run.
MaxMoves == 1
\* Most set_formation calls in a run that change the formation (a call with
\* an unknown name changes nothing and is always possible).
MaxSets == 1

(***************************************************************************)
(* Program constants.                                                      *)
(***************************************************************************)
\* self.formation_spacing = 5.0
formation_spacing == 500
\* max_vel = 3.0
max_vel == 3000
\* move_to_target(..., speed: float = 1.0)
default_speed == 1000
\* move_formation(5, 0, 0) and the other five directions of main()
move_step == 500
\* wait_for_connections(timeout = 30.0), in whole seconds
wfc_timeout == 30

Patterns == {"line", "triangle", "square", "circle", "diamond"}

Abs(x) == IF x < 0 THEN -x ELSE x

\* Division rounded to the nearest integer, for d > 0.
RoundDiv(x, d) == IF x >= 0 THEN (2 * x + d) \div (2 * d)
                            ELSE -((2 * (-x) + d) \div (2 * d))

\* Truncating division (the sign handled apart), for d > 0.
TruncDiv(x, d) == IF x >= 0 THEN x \div d ELSE -((-x) \div d)

\* floor(sqrt(s)), by bisection.
RECURSIVE SqrtBetween(_, _, _)
SqrtBetween(s, lo, hi) ==
    IF hi - lo <= 1 THEN lo
    ELSE LET mid == (lo + hi) \div 2
         IN  IF mid * mid <= s THEN SqrtBetween(s, mid, hi)
                               ELSE SqrtBetween(s, lo, mid)

ISqrt(s) == SqrtBetween(s, 0, 46341)

(***************************************************************************)
(* math.cos and math.sin at the angles 2*pi*i/n, to four decimals          *)
(* (10000 = 1.0), for n = 1..8: the counts the model reaches.              *)
(***************************************************************************)
CosSinTable ==
    << << <<10000, 0>> >>,
       << <<10000, 0>>, <<-10000, 0>> >>,
       << <<10000, 0>>, <<-5000, 8660>>, <<-5000, -8660>> >>,
       << <<10000, 0>>, <<0, 10000>>, <<-10000, 0>>, <<0, -10000>> >>,
       << <<10000, 0>>, <<3090, 9511>>, <<-8090, 5878>>, <<-8090, -5878>>,
          <<3090, -9511>> >>,
       << <<10000, 0>>, <<5000, 8660>>, <<-5000, 8660>>, <<-10000, 0>>,
          <<-5000, -8660>>, <<5000, -8660>> >>,
       << <<10000, 0>>, <<6235, 7818>>, <<-2225, 9749>>, <<-9010, 4339>>,
          <<-9010, -4339>>, <<-2225, -9749>>, <<6235, -7818>> >>,
       << <<10000, 0>>, <<7071, 7071>>, <<0, 10000>>, <<-7071, 7071>>,
          <<-10000, 0>>, <<-7071, -7071>>, <<0, -10000>>, <<7071, -7071>> >> >>

Cos(i, n) == CosSinTable[n][i + 1][1]
Sin(i, n) == CosSinTable[n][i + 1][2]

(***************************************************************************)
(* The formation patterns.  Each takes len(self.drones), the centre and    *)
(* the spacing and yields [exc, positions]: exc says that the Python       *)
(* function raises, positions is the list it returns otherwise.  i is the  *)
(* Python index (0-based); positions[i + 1] is the position of slot i.     *)
(***************************************************************************)
\* A line laid out around the origin, whatever the centre's x (a mutant of
\* line_formation).
line_formation_abs(n, c, s) ==
    [exc |-> FALSE,
     positions |-> [k \in 1..n |->
        <<((2 * (k - 1) - n) * s) \div 2, c[2], c[3]>>]]

\* The line centred with integer division, len(drones)//2 (a mutant of
\* line_formation).
line_formation_floor(n, c, s) ==
    [exc |-> FALSE,
     positions |-> [k \in 1..n |->
        <<c[1] + ((k - 1) - (n \div 2)) * s, c[2], c[3]>>]]

\* x = center[0] + (i - len(drones)/2) * spacing   (true division)
line_formation(n, c, s) ==
    [exc |-> FALSE,
     positions |-> [k \in 1..n |->
        LET i == k - 1
        IN  <<c[1] + ((2 * i - n) * s) \div 2, c[2], c[3]>>]]

triangle_formation(n, c, s) ==
    [exc |-> FALSE,
     positions |->
        (IF n >= 1 THEN << <<c[1], c[2], c[3]>> >> ELSE << >>)
     \o (IF n >= 2 THEN << <<c[1] - s, c[2] - s, c[3]>> >> ELSE << >>)
     \o (IF n >= 3 THEN << <<c[1] - s, c[2] + s, c[3]>> >> ELSE << >>)
     \o [k \in 1..(IF n > 3 THEN n - 3 ELSE 0) |->
            LET i == k + 2
            IN  <<c[1] - 2 * s,
                  c[2] + ((2 * (i - 3) - (n - 4)) * s) \div 4,
                  c[3]>>]]

square_positions(s) ==
    << <<s \div 2, s \div 2, 0>>,
       <<-(s \div 2), s \div 2, 0>>,
       <<-(s \div 2), -(s \div 2), 0>>,
       <<s \div 2, -(s \div 2), 0>> >>

square_formation(n, c, s) ==
    [exc |-> FALSE,
     positions |-> [k \in 1..n |->
        LET i == k - 1
        IN  IF i < 4
            THEN <<c[1] + square_positions(s)[i + 1][1],
                   c[2] + square_positions(s)[i + 1][2],
                   c[3]>>
            ELSE <<c[1], c[2], c[3] + (i - 3) * 200>>]]

\* angle = (2 * math.pi * i) / len(self.drones) is evaluated inside the
\* loop over the drones: the division raises only if the loop body runs
\* with len(self.drones) = 0.
circle_formation_hoisted(n, c, s) ==
    [exc |-> n = 0,
     positions |-> IF n = 0 THEN << >>
                   ELSE [k \in 1..n |->
                            <<c[1] + RoundDiv(s * Cos(k - 1, n), 10000),
                              c[2] + RoundDiv(s * Sin(k - 1, n), 10000),
                              c[3]>>]]

circle_formation(n, c, s) ==
    [exc |-> \E k \in 1..n : n = 0,
     positions |-> [k \in 1..n |->
        LET i == k - 1
        IN  <<c[1] + RoundDiv(s * Cos(i, n), 10000),
              c[2] + RoundDiv(s * Sin(i, n), 10000),
              c[3]>>]]

diamond_formation(n, c, s) ==
    [exc |-> FALSE,
     positions |->
        (IF n >= 1 THEN << <<c[1] + s, c[2], c[3]>> >> ELSE << >>)
     \o (IF n >= 2 THEN << <<c[1], c[2] - s, c[3]>> >> ELSE << >>)
     \o (IF n >= 3 THEN << <<c[1], c[2] + s, c[3]>> >> ELSE << >>)
     \o (IF n >= 4 THEN << <<c[1] - s, c[2], c[3]>> >> ELSE << >>)
     \o [k \in 1..(IF n > 4 THEN n - 4 ELSE 0) |->
            LET i == k + 3
            IN  <<c[1], c[2], c[3] + (i - 3) * 200>>]]

\* self.formations[name]()
formations(name, n, c, s) ==
    CASE name = "line"     -> line_formation(n, c, s)
      [] name = "triangle" -> triangle_formation(n, c, s)
      [] name = "square"   -> square_formation(n, c, s)
      [] name = "circle"   -> circle_formation(n, c, s)
      [] name = "diamond"  -> diamond_formation(n, c, s)


(***************************************************************************)
(* FormationDrone.move_to_target: the velocity it publishes.               *)
(***************************************************************************)
\* No limit on the velocity (the mutant of Clamp).
Clamp_off(v) == v

\* max(-max_vel, min(max_vel, v))
Clamp(v) == IF v > max_vel THEN max_vel ELSE IF v < -max_vel THEN -max_vel ELSE v

\* distance = sqrt(dx*dx + dy*dy + dz*dz); distance > 0.1 is decided on the
\* squares (10 cm squared), the quotient d/distance on the integer root.
move_to_target(pos, target, speed) ==
    LET dx == target[1] - pos[1]
        dy == target[2] - pos[2]
        dz == target[3] - pos[3]
        sq == dx * dx + dy * dy + dz * dz
        distance == ISqrt(sq)
    IN  IF sq > 100
        THEN <<Clamp(TruncDiv(dx * speed, distance)),
               Clamp(TruncDiv(dy * speed, distance)),
               Clamp(TruncDiv(dz * speed, distance))>>
        ELSE <<0, 0, 0>>

(***************************************************************************)
(* State.                                                                  *)
(***************************************************************************)
VARIABLES
    \* ArduPilotFormationController and its FormationDrones
    nDrones,            \* len(self.drones)
    connected,          \* connected[k]: drone k's self.connected
    position,           \* position[k]: drone k's self.position
    target_position,    \* target_position[k]: drone k's self.target_position
    formation_active,   \* self.formation_active
    formation_center,   \* self.formation_center
    current_formation,  \* self.current_formation
    \* main(): where the single thread of the program is
    pc,       \* "setup", "wfc", "prompt", "spin", "exited"
    op,       \* the controller operation running or last run
    idx,      \* the drone the running operation is at (0: none)
    stage,    \* the request a spin waits for: "set_mode", "arm", "takeoff"
    fin,      \* land_formation was called from main()'s finally block
    success_count,  \* arm_all's local
    elapsed,  \* wait_for_connections: whole seconds since start_time
    why,      \* how main() left its try block
    \* observation
    ret,      \* what the last controller operation returned
    oplog,    \* what the running (or last) operation of main() did, in order
    pub,      \* the velocity setpoints the last step published, in order
    lastAct,  \* the handler the last step ran
    stopRun,  \* stop_formation calls in a row (counted to 2)
    nMoves,   \* move_formation calls so far
    nSets     \* set_formation calls with a known name so far

\* DroneController.takeoff (flight_controller.py)
VARIABLES
    tkPc,          \* "idle", "loop" (in the while loop), "done" (returned)
    altitude,      \* the parameter of takeoff, in metres
    tkElapsed,     \* time.time() - start_time, in whole seconds
    stable_count,  \* the local stable_count
    last_alt,      \* the local last_alt, in millimetres
    tkSample,      \* the last relative_alt received (-1: none yet)
    tkMax,         \* the highest relative_alt received (-1: none yet)
    tkRun,         \* the samples in a row, up to the last one, that each
                   \* came within 0.1 m of the sample received before it
    tkResult       \* what takeoff returned

tvars == <<tkPc, altitude, tkElapsed, stable_count, last_alt, tkSample, tkMax,
           tkRun, tkResult>>

\* A call of one formation pattern on its own
VARIABLES
    pfName,    \* the pattern called
    pfCount,   \* len(self.drones) at the call
    pfCenter,  \* self.formation_center at the call
    pfOut      \* [called, exc, positions]: whether the call was made, and
               \* what it gave

pvars == <<pfName, pfCount, pfCenter, pfOut>>

\* One call of set_mode or arm on one session, of either implementation
VARIABLES
    cImpl,       \* "FormationDrone" (Drone.py) or "DroneController"
                 \* (flight_controller.py)
    cMethod,     \* "set_mode", "arm" or "land"
    cMode,       \* the argument of set_mode ("" for arm, "LAND" for land)
    cConnected,  \* FormationDrone: self.connected
    cPc,         \* "call", "spin" (spin_until_future_complete), "loop" (the
                 \* HEARTBEAT loop of DroneController.arm), "land_loop"
                 \* (that of DroneController.land), "done"
    cSent,       \* what the call has sent over the transport, in order
    cReply,      \* what came back: "none", a member of Outcomes, or the
                 \* last HEARTBEAT seen ("armed", "disarmed")
    cElapsed,    \* DroneController.arm: time.time() - start_time, seconds
    cRet         \* what the call returned ("None" until it has)

cvars == <<cImpl, cMethod, cMode, cConnected, cPc, cSent, cReply, cElapsed,
           cRet>>

\* One call of FormationDrone.move_to_target
VARIABLES
    mtPosition,  \* self.position
    mtTarget,    \* the parameter target
    mtSpeed,     \* the parameter speed
    mtReported,  \* the position the vehicle last reported (its local
                 \* position telemetry)
    mtOut        \* [called, v]: whether the call was made and the velocity
                 \* it published

mvars == <<mtPosition, mtTarget, mtSpeed, mtReported, mtOut>>

\* main() of auto_pilot.py, the single-vehicle mission
VARIABLES
    apPc,   \* the call main() is about to make or is in: "idle", "connect",
            \* "gps", "set_mode", "arm", "takeoff", "move", "land",
            \* "handler" (drone.land() of an except clause), "exited"
    apLog,  \* the calls main() made on the drone and how each ended
    apWhy   \* how main() ended: "none", "completed", "returned",
            \* "interrupt", "exception", "raised" (out of an except clause)

avars == <<apPc, apLog, apWhy>>

fvars == <<nDrones, connected, position, target_position, formation_active,
           formation_center, current_formation, pc, op, idx, stage, fin,
           success_count, elapsed, why, ret, oplog, pub, lastAct, stopRun,
           nMoves, nSets>>

vars == <<fvars, tvars, pvars, cvars, mvars, avars>>

\* What the actions of one part of the program leave alone.
notFormation == <<tvars, pvars, cvars, mvars, avars>>
notTakeoff == <<fvars, pvars, cvars, mvars, avars>>
notPattern == <<fvars, tvars, cvars, mvars, avars>>
notCall == <<fvars, tvars, pvars, mvars, avars>>
notMove == <<fvars, tvars, pvars, cvars, avars>>
notMission == <<fvars, pvars, cvars, mvars>>

Drones == 1..nDrones

\* An entry of oplog: what was done, to which drone (0: none), with what.
Ev(e, k, a) == [ev |-> e, k |-> k, arg |-> a]

\* time.sleep(d), d in tenths of a second
Sleep(d) == Ev("sleep", d, "")

(***************************************************************************)
(* The sequential operations of the controller.  Between two waits the     *)
(* thread runs alone, so each operator below runs the code from one point  *)
(* to the next rclpy.spin_until_future_complete (pc "spin") or to the      *)
(* operation's return, and yields what the thread's state then is:         *)
(*   [pc, idx, stage, sc, ret, log, active]                                *)
(* spin_until_future_complete runs the node's callbacks (the control timer *)
(* and the state subscriptions); time.sleep runs none.                     *)
(***************************************************************************)
At(p, k, st, sc, r, log, act) ==
    [pc |-> p, idx |-> k, stage |-> st, sc |-> sc, ret |-> r, log |-> log,
     active |-> act]

\* FormationDrone.arm / set_mode up to the call: the request is sent if and
\* only if self.connected.
Sends(k) == connected[k]

\* The reply the future holds when spin_until_future_complete returns:
\* "ok" (success / mode_sent true), "nack" (false) or "timeout"
\* (future.result() is None).
Outcomes == {"ok", "nack", "timeout"}

\* A Python return value, as oplog and ret hold it: "True", "False", "None".
Bool(b) == IF b THEN "True" ELSE "False"

\* future.result() and future.result().success
Truthy(outcome) == outcome = "ok"

\* arm_all that stops at the first failure (the mutant of arm_all_loop).
RECURSIVE arm_all_loop_failfast(_, _, _)
arm_all_loop_failfast(k, sc, log) ==
    IF k > nDrones \/ sc < k - 1
    THEN At("prompt", 0, "none", 0, Bool(sc = nDrones), log, formation_active)
    ELSE IF ~Sends(k)
    THEN arm_all_loop_failfast(k + 1, sc,
                      log \o <<Ev("call", k, "arm"), Ev("fail", k, "arm")>>)
    ELSE At("spin", k, "arm", sc, "None",
            log \o <<Ev("call", k, "arm"), Ev("req", k, "arm")>>,
            formation_active)

\* arm_all: the for loop from drone k on, success_count being sc.
RECURSIVE arm_all_loop(_, _, _)
arm_all_loop(k, sc, log) ==
    IF k > nDrones
    THEN At("prompt", 0, "none", 0, Bool(sc = nDrones), log, formation_active)
    ELSE IF ~Sends(k)
    THEN arm_all_loop(k + 1, sc,
                      log \o <<Ev("call", k, "arm"), Ev("fail", k, "arm")>>)
    ELSE At("spin", k, "arm", sc, "None",
            log \o <<Ev("call", k, "arm"), Ev("req", k, "arm")>>,
            formation_active)

\* arm_all: drone k's arm() has returned.
arm_all_reply(k, sc, outcome, log) ==
    IF Truthy(outcome)
    THEN arm_all_loop(k + 1, sc + 1, log \o <<Ev("ok", k, "arm")>>)
    ELSE arm_all_loop(k + 1, sc, log \o <<Ev("fail", k, "arm")>>)

\* takeoff_formation returns False: drone k's takeoff failed.
takeoff_failed(k, log) ==
    At("prompt", 0, "none", 0, "False",
       log \o <<Ev("fail", k, "takeoff")>>, formation_active)

\* takeoff_formation without the stagger (the mutant of takeoff_loop).
takeoff_loop_no_stagger(k, log) ==
    IF k > nDrones
    THEN At("prompt", 0, "none", 0, "True", log \o <<Sleep(100)>>,
            formation_active)
    ELSE LET l1 == log \o <<Ev("call", k, "takeoff")>>
         IN  IF ~Sends(k)
             THEN takeoff_failed(k, l1 \o <<Ev("fail", k, "GUIDED")>>)
             ELSE At("spin", k, "set_mode", 0, "None",
                     l1 \o <<Ev("req", k, "GUIDED")>>, formation_active)

\* takeoff_formation: the for loop from drone k on, up to the first wait of
\* drone k's takeoff (its set_mode('GUIDED')).
takeoff_loop(k, log) ==
    IF k > nDrones
    THEN At("prompt", 0, "none", 0, "True", log \o <<Sleep(100)>>,
            formation_active)
    ELSE LET l1 == (IF k > 1 THEN log \o <<Sleep(10)>> ELSE log)
                   \o <<Ev("call", k, "takeoff")>>
         IN  IF ~Sends(k)
             THEN takeoff_failed(k, l1 \o <<Ev("fail", k, "GUIDED")>>)
             ELSE At("spin", k, "set_mode", 0, "None",
                     l1 \o <<Ev("req", k, "GUIDED")>>, formation_active)

\* FormationDrone.takeoff that goes on to arm() whatever set_mode('GUIDED')
\* returned (the mutant of takeoff_after_set_mode).
takeoff_after_set_mode_go_on(k, outcome, log) ==
    LET l1 == log \o <<Ev(IF Truthy(outcome) THEN "ok" ELSE "fail", k, "GUIDED"),
                       Sleep(5)>>
    IN  IF ~Sends(k)
        THEN takeoff_failed(k, l1 \o <<Ev("fail", k, "arm")>>)
        ELSE At("spin", k, "arm", 0, "None", l1 \o <<Ev("req", k, "arm")>>,
                formation_active)

\* FormationDrone.takeoff: set_mode('GUIDED') has returned.  The log takes
\* what set_mode returned ("ok": truthy, "fail": falsy), and what arm()
\* returned when it returns at once, the drone not being connected.
takeoff_after_set_mode(k, outcome, log) ==
    IF ~Truthy(outcome)
    THEN takeoff_failed(k, log \o <<Ev("fail", k, "GUIDED")>>)
    ELSE IF ~Sends(k)
    THEN takeoff_failed(k, log \o <<Ev("ok", k, "GUIDED"), Sleep(5),
                                    Ev("fail", k, "arm")>>)
    ELSE At("spin", k, "arm", 0, "None",
            log \o <<Ev("ok", k, "GUIDED"), Sleep(5), Ev("req", k, "arm")>>,
            formation_active)

\* FormationDrone.takeoff: arm() has returned.  The takeoff request follows
\* with no test of self.connected.
takeoff_after_arm(k, outcome, log) ==
    IF ~Truthy(outcome)
    THEN takeoff_failed(k, log \o <<Ev("fail", k, "arm")>>)
    ELSE At("spin", k, "takeoff", 0, "None",
            log \o <<Ev("ok", k, "arm"), Sleep(5), Ev("req", k, "takeoff")>>,
            formation_active)

\* takeoff_formation that goes on to the next drone after a failed takeoff
\* (the mutant of takeoff_after_takeoff).
takeoff_after_takeoff_go_on(k, outcome, log) ==
    IF ~Truthy(outcome)
    THEN takeoff_loop(k + 1, log \o <<Ev("fail", k, "takeoff")>>)
    ELSE takeoff_loop(k + 1, log \o <<Ev("ok", k, "takeoff")>>)

\* takeoff_formation: drone k's takeoff() has returned.
takeoff_after_takeoff(k, outcome, log) ==
    IF ~Truthy(outcome)
    THEN takeoff_failed(k, log)
    ELSE takeoff_loop(k + 1, log \o <<Ev("ok", k, "takeoff")>>)

\* The stagger of land_formation after drone k's land().
land_stagger(k) == IF k < nDrones THEN <<Sleep(20)>> ELSE << >>

\* land_formation: the for loop from drone k on.  f: called from the finally
\* block of main(), which goes on to destroy_node and rclpy.shutdown.
RECURSIVE land_loop(_, _, _)
land_loop(k, f, log) ==
    IF k > nDrones
    THEN IF f
         THEN At("exited", 0, "none", 0, "None",
                 log \o <<Ev("inactive", 0, ""), Ev("destroy_node", 0, ""),
                          Ev("shutdown", 0, "")>>, FALSE)
         ELSE At("prompt", 0, "none", 0, "None",
                 log \o <<Ev("inactive", 0, "")>>, FALSE)
    ELSE IF ~Sends(k)
    THEN land_loop(k + 1, f,
                   log \o <<Ev("call", k, "land")>> \o land_stagger(k))
    ELSE At("spin", k, "set_mode", 0, "None",
            log \o <<Ev("call", k, "land"), Ev("req", k, "LAND")>>,
            formation_active)

\* land_formation: drone k's land() has returned (its result is dropped).
land_after_set_mode(k, f, log) == land_loop(k + 1, f, log \o land_stagger(k))

(***************************************************************************)
(* The handlers that publish.                                              *)
(***************************************************************************)
\* One velocity setpoint: Twist(vx, vy, vz) published on drone k's topic.
Setpoint(k, v) == [k |-> k, v |-> v]

\* formation_control_loop without the test of formation_active (a mutant).
formation_control_loop_always ==
    LET tp == formations(current_formation, nDrones, formation_center,
                         formation_spacing).positions
    IN  [target |-> [k \in 1..nDrones |-> tp[k]],
         pub |-> [k \in 1..nDrones |->
                     Setpoint(k, move_to_target(position[k], tp[k],
                                                default_speed))]]

\* formation_control_loop that leaves the last drone out (a mutant).
formation_control_loop_short ==
    IF ~formation_active \/ nDrones = 0
    THEN [target |-> target_position, pub |-> << >>]
    ELSE LET tp == formations(current_formation, nDrones, formation_center,
                              formation_spacing).positions
         IN  [target |-> [k \in 1..nDrones |->
                             IF k < nDrones THEN tp[k] ELSE target_position[k]],
              pub |-> [k \in 1..(nDrones - 1) |->
                          Setpoint(k, move_to_target(position[k], tp[k],
                                                     default_speed))]]

\* formation_control_loop, the callback of control_timer: the new
\* target_position of every drone and the setpoints published.
formation_control_loop ==
    IF ~formation_active \/ nDrones = 0
    THEN [target |-> target_position, pub |-> << >>]
    ELSE LET tp == formations(current_formation, nDrones, formation_center,
                              formation_spacing).positions
             m  == IF Len(tp) < nDrones THEN Len(tp) ELSE nDrones
         IN  [target |-> [k \in 1..nDrones |->
                             IF k <= Len(tp) THEN tp[k] ELSE target_position[k]],
              pub |-> [k \in 1..m |->
                          Setpoint(k, move_to_target(position[k], tp[k],
                                                     default_speed))]]

\* stop_formation that stops the drones only if the formation was active
\* (the mutant of stop_formation_pub).
stop_formation_pub_if_active ==
    IF formation_active
    THEN [k \in 1..nDrones |-> Setpoint(k, <<0, 0, 0>>)]
    ELSE << >>

\* stop_formation: drone.stop() for every drone, each a send_velocity(0, 0, 0).
stop_formation_pub == [k \in 1..nDrones |-> Setpoint(k, <<0, 0, 0>>)]

\* FormationDrone.state_callback: self.connected after the message.
state_callback(was, msg_connected) ==
    IF ~was /\ msg_connected THEN TRUE
    ELSE IF was /\ ~msg_connected THEN FALSE
    ELSE was

(***************************************************************************)
(* Init: main() has created the controller (ArduPilotFormationController   *)
(* .__init__) and is about to add the drones.                              *)
(***************************************************************************)
TakeoffIdle ==
    /\ tkPc = "idle"
    /\ altitude = 0
    /\ tkElapsed = 0
    /\ stable_count = 0
    /\ last_alt = 0
    /\ tkSample = -1
    /\ tkMax = -1
    /\ tkRun = 0
    /\ tkResult = "None"

NotCalled == [called |-> FALSE, exc |-> FALSE, positions |-> << >>]

PatternIdle ==
    /\ pfName = "line"
    /\ pfCount = 0
    /\ pfCenter = <<0, 0, 1000>>
    /\ pfOut = NotCalled

CallIdle ==
    /\ cImpl = "FormationDrone"
    /\ cMethod = "arm"
    /\ cMode = ""
    /\ cConnected = FALSE
    /\ cPc = "idle"
    /\ cSent = << >>
    /\ cReply = "none"
    /\ cElapsed = 0
    /\ cRet = "None"

MissionIdle ==
    /\ apPc = "idle"
    /\ apLog = << >>
    /\ apWhy = "none"

NoVelocity == [called |-> FALSE, v |-> <<0, 0, 0>>]

MoveIdle ==
    /\ mtPosition = <<0, 0, 0>>
    /\ mtTarget = <<0, 0, 0>>
    /\ mtSpeed = default_speed
    /\ mtReported = <<0, 0, 0>>
    /\ mtOut = NoVelocity

\* ArduPilotFormationController.__init__, and main() about to add the drones.
FormationInit ==
    /\ nDrones = 0
    /\ connected = << >>
    /\ position = << >>
    /\ target_position = << >>
    /\ formation_active = FALSE
    /\ formation_center = <<0, 0, 1000>>
    /\ current_formation = "line"
    /\ pc = "setup"
    /\ op = "none"
    /\ idx = 0
    /\ stage = "none"
    /\ fin = FALSE
    /\ success_count = 0
    /\ elapsed = 0
    /\ why = "none"
    /\ ret = "None"
    /\ oplog = << >>
    /\ pub = << >>
    /\ lastAct = "init"
    /\ stopRun = 0
    /\ nMoves = 0
    /\ nSets = 0

Init ==
    /\ FormationInit
    /\ TakeoffIdle
    /\ PatternIdle
    /\ CallIdle
    /\ MoveIdle
    /\ MissionIdle

\* The thread goes on as r says.
Goto(r) ==
    /\ pc' = r.pc
    /\ idx' = r.idx
    /\ stage' = r.stage
    /\ success_count' = r.sc
    /\ ret' = r.ret
    /\ oplog' = r.log

Apply(r) ==
    /\ Goto(r)
    /\ formation_active' = r.active

\* A finally block that releases the node without landing (the mutant of
\* Finally).
Finally_no_land(kind) ==
    /\ why' = kind
    /\ op' = "land_formation"
    /\ fin' = TRUE
    /\ elapsed' = 0
    /\ formation_active' = FALSE
    /\ pub' = stop_formation_pub
    /\ lastAct' = "stop_formation"
    /\ stopRun' = IF stopRun < 2 THEN stopRun + 1 ELSE stopRun
    /\ Goto(At("exited", 0, "none", 0, "None",
               <<Ev("stop_formation", 0, ""), Ev("destroy_node", 0, ""),
                 Ev("shutdown", 0, "")>>, FALSE))
    /\ UNCHANGED <<nDrones, connected, position, target_position,
                   formation_center, current_formation, nMoves, nSets>>
    /\ UNCHANGED notFormation

\* main() leaves its try block (kind says how) and runs the finally block up
\* to its first wait: formation.stop_formation(), then
\* formation.land_formation() and, once that has returned,
\* formation.destroy_node() and rclpy.shutdown().
Finally(kind) ==
    /\ why' = kind
    /\ op' = "land_formation"
    /\ fin' = TRUE
    /\ elapsed' = 0
    /\ formation_active' = FALSE
    /\ pub' = stop_formation_pub
    /\ lastAct' = "stop_formation"
    /\ stopRun' = IF stopRun < 2 THEN stopRun + 1 ELSE stopRun
    /\ Goto(land_loop(1, TRUE, <<Ev("stop_formation", 0, "")>>))
    /\ UNCHANGED <<nDrones, connected, position, target_position,
                   formation_center, current_formation, nMoves, nSets>>
    /\ UNCHANGED notFormation

\* A step of the main thread that publishes nothing.
Quiet(name) ==
    /\ pub' = << >>
    /\ lastAct' = name
    /\ stopRun' = 0

(***************************************************************************)
(* main(): adding the drones and waiting for their connections.            *)
(***************************************************************************)
\* add_drone
AddDrone ==
    /\ pc = "setup"
    /\ nDrones < MaxDrones
    /\ nDrones' = nDrones + 1
    /\ connected' = Append(connected, FALSE)
    /\ position' = Append(position, <<0, 0, 0>>)
    /\ target_position' = Append(target_position, <<0, 0, 0>>)
    /\ Quiet("add_drone")
    /\ UNCHANGED <<formation_active, formation_center, current_formation, pc,
                   op, idx, stage, fin, success_count, elapsed, why, ret,
                   oplog, nMoves, nSets>>
    /\ UNCHANGED notFormation

\* main() calls wait_for_connections: start_time = time.time()
WfcStart ==
    /\ pc = "setup"
    /\ pc' = "wfc"
    /\ op' = "wait_for_connections"
    /\ elapsed' = 0
    /\ Quiet("wait_for_connections")
    /\ UNCHANGED <<nDrones, connected, position, target_position,
                   formation_active, formation_center, current_formation,
                   idx, stage, fin, success_count, why, ret, oplog, nMoves,
                   nSets>>
    /\ UNCHANGED notFormation

\* connected_count > 0 in place of connected_count == len(self.drones) (the
\* mutant of AllConnected).
AnyConnected == nDrones = 0 \/ \E k \in Drones : connected[k]

\* connected_count == len(self.drones)
AllConnected == \A k \in Drones : connected[k]

\* time.time() - start_time after a spin_once that took d seconds
Later(d) == IF elapsed + d > wfc_timeout THEN wfc_timeout ELSE elapsed + d

\* wait_for_connections: connected_count == len(self.drones), return True
WfcReturnTrue ==
    /\ pc = "wfc"
    /\ elapsed < wfc_timeout
    /\ AllConnected
    /\ pc' = "prompt"
    /\ ret' = "True"
    /\ elapsed' = 0
    /\ Quiet("wait_for_connections")
    /\ UNCHANGED <<nDrones, connected, position, target_position,
                   formation_active, formation_center, current_formation, op,
                   idx, stage, fin, success_count, why, oplog,
                   nMoves, nSets>>
    /\ UNCHANGED notFormation

\* wait_for_connections: the while condition fails, return False; main()
\* returns, through its finally block.
WfcTimeout ==
    /\ pc = "wfc"
    /\ elapsed >= wfc_timeout
    /\ Finally("wfc_failed")

\* wait_for_connections: rclpy.spin_once runs the control timer's callback.
WfcSpinOnceTick(d) ==
    /\ pc = "wfc"
    /\ elapsed < wfc_timeout
    /\ ~AllConnected
    /\ target_position' = formation_control_loop.target
    /\ pub' = formation_control_loop.pub
    /\ lastAct' = "tick"
    /\ stopRun' = 0
    /\ elapsed' = Later(d)
    /\ UNCHANGED <<nDrones, connected, position, formation_active,
                   formation_center, current_formation, pc, op, idx, stage,
                   fin, success_count, why, ret, oplog, nMoves, nSets>>
    /\ UNCHANGED notFormation

\* wait_for_connections: rclpy.spin_once runs drone j's state_callback.
WfcSpinOnceState(j, b, d) ==
    /\ pc = "wfc"
    /\ elapsed < wfc_timeout
    /\ ~AllConnected
    /\ connected' = [connected EXCEPT ![j] = state_callback(@, b)]
    /\ Quiet("state_callback")
    /\ elapsed' = Later(d)
    /\ UNCHANGED <<nDrones, position, target_position, formation_active,
                   formation_center, current_formation, pc, op, idx, stage,
                   fin, success_count, why, ret, oplog, nMoves, nSets>>
    /\ UNCHANGED notFormation

\* KeyboardInterrupt or an exception while main() is in wait_for_connections.
WfcAbort(kind) ==
    /\ pc = "wfc"
    /\ Finally(kind)

(***************************************************************************)
(* main(): the command loop.  pc = "prompt" is input(); no callback runs   *)
(* there, since nothing spins the node.                                    *)
(***************************************************************************)
\* 'arm': formation.arm_all()
CmdArmAll ==
    /\ pc = "prompt"
    /\ op' = "arm_all"
    /\ fin' = FALSE
    /\ Apply(arm_all_loop(1, 0, << >>))
    /\ Quiet("arm_all")
    /\ UNCHANGED <<nDrones, connected, position, target_position,
                   formation_center, current_formation, elapsed, why, nMoves,
                   nSets>>
    /\ UNCHANGED notFormation

\* 'takeoff': formation.takeoff_formation()
CmdTakeoff ==
    /\ pc = "prompt"
    /\ op' = "takeoff_formation"
    /\ fin' = FALSE
    /\ Apply(takeoff_loop(1, << >>))
    /\ Quiet("takeoff_formation")
    /\ UNCHANGED <<nDrones, connected, position, target_position,
                   formation_center, current_formation, elapsed, why, nMoves,
                   nSets>>
    /\ UNCHANGED notFormation

\* 'land': formation.land_formation()
CmdLand ==
    /\ pc = "prompt"
    /\ op' = "land_formation"
    /\ fin' = FALSE
    /\ Apply(land_loop(1, FALSE, << >>))
    /\ Quiet("land_formation")
    /\ UNCHANGED <<nDrones, connected, position, target_position,
                   formation_center, current_formation, elapsed, why, nMoves,
                   nSets>>
    /\ UNCHANGED notFormation

\* 'start': formation.start_formation()
CmdStart ==
    /\ pc = "prompt"
    /\ op' = "start_formation"
    /\ formation_active' = TRUE
    /\ ret' = "None"
    /\ oplog' = << >>
    /\ Quiet("start_formation")
    /\ UNCHANGED <<nDrones, connected, position, target_position,
                   formation_center, current_formation, pc, idx, stage, fin,
                   success_count, elapsed, why, nMoves, nSets>>
    /\ UNCHANGED notFormation

\* 'stop': formation.stop_formation()
CmdStop ==
    /\ pc = "prompt"
    /\ op' = "stop_formation"
    /\ formation_active' = FALSE
    /\ pub' = stop_formation_pub
    /\ lastAct' = "stop_formation"
    /\ stopRun' = IF stopRun < 2 THEN stopRun + 1 ELSE stopRun
    /\ ret' = "None"
    /\ oplog' = << >>
    /\ UNCHANGED <<nDrones, connected, position, target_position,
                   formation_center, current_formation, pc, idx, stage, fin,
                   success_count, elapsed, why, nMoves, nSets>>
    /\ UNCHANGED notFormation

\* The names set_formation is called with: the five of main() and one that
\* is no key of self.formations.
FormationNames == Patterns \cup {"spiral"}

\* set_formation that takes any name (the mutant of set_formation).
set_formation_unchecked(name) ==
    [formation |-> name, ret |-> Bool(name \in Patterns)]

\* set_formation(name): the new self.current_formation and the result.
set_formation(name) ==
    IF name \in Patterns
    THEN [formation |-> name, ret |-> "True"]
    ELSE [formation |-> current_formation, ret |-> "False"]

CmdSetFormation(name) ==
    /\ pc = "prompt"
    /\ name \in Patterns => nSets < MaxSets
    /\ nSets' = IF name \in Patterns THEN nSets + 1 ELSE nSets
    /\ op' = "set_formation"
    /\ current_formation' = set_formation(name).formation
    /\ ret' = set_formation(name).ret
    /\ oplog' = <<Ev("call", 0, name)>>
    /\ Quiet("set_formation")
    /\ UNCHANGED <<nDrones, connected, position, target_position,
                   formation_active, formation_center, pc, idx, stage, fin,
                   success_count, elapsed, why, nMoves>>
    /\ UNCHANGED notFormation

\* The six moves of main(): forward, backward, left, right, up, down.
Moves == {<<move_step, 0, 0>>, <<-move_step, 0, 0>>, <<0, move_step, 0>>,
          <<0, -move_step, 0>>, <<0, 0, move_step>>, <<0, 0, -move_step>>}

\* move_formation(dx, dy, dz)
move_formation(c, d) == <<c[1] + d[1], c[2] + d[2], c[3] + d[3]>>

CmdMove(d) ==
    /\ pc = "prompt"
    /\ nMoves < MaxMoves
    /\ nMoves' = nMoves + 1
    /\ op' = "move_formation"
    /\ formation_center' = move_formation(formation_center, d)
    /\ ret' = "None"
    /\ oplog' = <<Ev("call", 0, d)>>
    /\ Quiet("move_formation")
    /\ UNCHANGED <<nDrones, connected, position, target_position,
                   formation_active, current_formation, pc, idx, stage, fin,
                   success_count, elapsed, why, nSets>>
    /\ UNCHANGED notFormation

\* 'quit' (break), KeyboardInterrupt at input() (break) or an exception
\* (EOFError of input(), caught by the outer except): on to finally.
Leave(kind) ==
    /\ pc = "prompt"
    /\ Finally(kind)

(***************************************************************************)
(* pc = "spin": the thread is in rclpy.spin_until_future_complete.         *)
(***************************************************************************)
\* The executor runs the control timer's callback.
SpinTick ==
    /\ pc = "spin"
    /\ target_position' = formation_control_loop.target
    /\ pub' = formation_control_loop.pub
    /\ lastAct' = "tick"
    /\ stopRun' = 0
    /\ UNCHANGED <<nDrones, connected, position, formation_active,
                   formation_center, current_formation, pc, op, idx, stage,
                   fin, success_count, elapsed, why, ret, oplog, nMoves,
                   nSets>>
    /\ UNCHANGED notFormation

\* The executor runs drone j's state_callback on a State message.
SpinState(j, b) ==
    /\ pc = "spin"
    /\ connected' = [connected EXCEPT ![j] = state_callback(@, b)]
    /\ Quiet("state_callback")
    /\ UNCHANGED <<nDrones, position, target_position, formation_active,
                   formation_center, current_formation, pc, op, idx, stage,
                   fin, success_count, elapsed, why, ret, oplog, nMoves,
                   nSets>>
    /\ UNCHANGED notFormation

\* Where the thread goes when the spin returns with the given outcome.
after_spin(outcome) ==
    CASE op = "arm_all" ->
            arm_all_reply(idx, success_count, outcome, oplog)
      [] op = "takeoff_formation" /\ stage = "set_mode" ->
            takeoff_after_set_mode(idx, outcome, oplog)
      [] op = "takeoff_formation" /\ stage = "arm" ->
            takeoff_after_arm(idx, outcome, oplog)
      [] op = "takeoff_formation" /\ stage = "takeoff" ->
            takeoff_after_takeoff(idx, outcome, oplog)
      [] op = "land_formation" ->
            land_after_set_mode(idx, fin, oplog)

\* spin_until_future_complete returns: the reply came, or the timeout passed.
SpinReturn(outcome) ==
    /\ pc = "spin"
    /\ Apply(after_spin(outcome))
    /\ Quiet("reply")
    /\ UNCHANGED <<nDrones, connected, position, target_position,
                   formation_center, current_formation, op, fin, elapsed,
                   why, nMoves, nSets>>
    /\ UNCHANGED notFormation

\* KeyboardInterrupt (caught in the loop, break) or an exception (caught by
\* the outer except) while a command waits: on to finally.
SpinAbort(kind) ==
    /\ pc = "spin"
    /\ ~fin
    /\ Finally(kind)

Next ==
    \/ AddDrone
    \/ WfcStart
    \/ WfcReturnTrue
    \/ WfcTimeout
    \/ \E d \in {0, 1} : WfcSpinOnceTick(d)
    \/ \E j \in Drones, b \in BOOLEAN, d \in {0, 1} : WfcSpinOnceState(j, b, d)
    \/ \E kind \in {"interrupt", "exception"} : WfcAbort(kind)
    \/ CmdArmAll
    \/ CmdTakeoff
    \/ CmdLand
    \/ CmdStart
    \/ CmdStop
    \/ \E name \in FormationNames : CmdSetFormation(name)
    \/ \E d \in Moves : CmdMove(d)
    \/ \E kind \in {"quit", "interrupt", "exception"} : Leave(kind)
    \/ SpinTick
    \/ \E j \in Drones, b \in BOOLEAN : SpinState(j, b)
    \/ \E outcome \in Outcomes : SpinReturn(outcome)
    \/ \E kind \in {"interrupt_in_command", "exception"} : SpinAbort(kind)

Spec == Init /\ [][Next]_vars


(***************************************************************************)
(* DroneController.takeoff (flight_controller.py): the altitude polling    *)
(* loop.  One action is one iteration of the while loop:                   *)
(* recv_match(blocking = True, timeout = 1), the tests, time.sleep(1).     *)
(***************************************************************************)
\* while time.time() - start_time < 30
takeoff_window == 30

\* The altitudes takeoff is called with: 5 (auto_pilot.py), 10.
TakeoffAltitudes == {5, 10}

\* The relative_alt values (millimetres) a GLOBAL_POSITION_INT may carry.
\* No two of them differ by exactly 100, where the float comparison
\* abs(current_alt - last_alt) < 0.1 depends on rounding.
AltSamples == {0, 4250, 4300, 5000, 8500, 8550, 9100}

\* current_alt >= altitude * 0.90, current_alt = relative_alt / 1000.0
Reached90(sample, alt) == sample >= alt * 900

\* The stability test without its 0.85 floor (the mutant of Reached85).
Reached85_dropped(sample, alt) == TRUE

\* current_alt >= altitude * 0.85
Reached85(sample, alt) == sample >= alt * 850

\* The 90% test done at 95% (the mutant of takeoff_sample).
takeoff_sample_late(alt, last, stable, sample) ==
    IF sample >= alt * 950
    THEN [done |-> TRUE, stable |-> stable, last |-> last]
    ELSE IF Abs(sample - last) < 100
    THEN IF stable + 1 >= 3 /\ Reached85(sample, alt)
         THEN [done |-> TRUE, stable |-> stable + 1, last |-> last]
         ELSE [done |-> FALSE, stable |-> stable + 1, last |-> sample]
    ELSE [done |-> FALSE, stable |-> 0, last |-> sample]

\* The body of `if msg:` for one sample: whether takeoff returns True, and
\* the locals stable_count and last_alt after it.
takeoff_sample(alt, last, stable, sample) ==
    IF Reached90(sample, alt)
    THEN [done |-> TRUE, stable |-> stable, last |-> last]
    ELSE IF Abs(sample - last) < 100
    THEN IF stable + 1 >= 3 /\ Reached85(sample, alt)
         THEN [done |-> TRUE, stable |-> stable + 1, last |-> last]
         ELSE [done |-> FALSE, stable |-> stable + 1, last |-> sample]
    ELSE [done |-> FALSE, stable |-> 0, last |-> sample]

\* takeoff(a) has sent MAV_CMD_NAV_TAKEOFF and set start_time,
\* stable_count = 0 and last_alt = 0.
InitTakeoff ==
    /\ tkPc = "loop"
    /\ altitude \in TakeoffAltitudes
    /\ tkElapsed = 0
    /\ stable_count = 0
    /\ last_alt = 0
    /\ tkSample = -1
    /\ tkMax = -1
    /\ tkRun = 0
    /\ tkResult = "None"
    /\ FormationInit
    /\ PatternIdle
    /\ CallIdle
    /\ MoveIdle
    /\ MissionIdle

\* An iteration in which recv_match returns a message after w seconds
\* (0: it was waiting, 1: it came at the end of the timeout).
TakeoffMsg(sample, w) ==
    /\ tkPc = "loop"
    /\ tkElapsed < takeoff_window
    /\ LET r == takeoff_sample(altitude, last_alt, stable_count, sample)
       IN  /\ stable_count' = r.stable
           /\ last_alt' = r.last
           /\ IF r.done
              THEN /\ tkPc' = "done"
                   /\ tkResult' = "True"
                   /\ tkElapsed' = tkElapsed + w
              ELSE /\ tkPc' = "loop"
                   /\ tkResult' = tkResult
                   /\ tkElapsed' = tkElapsed + w + 1
    /\ tkSample' = sample
    /\ tkMax' = IF sample > tkMax THEN sample ELSE tkMax
    /\ tkRun' = IF tkSample # -1 /\ Abs(sample - tkSample) < 100
                THEN tkRun + 1 ELSE 0
    /\ UNCHANGED <<altitude, notTakeoff>>

\* An iteration in which recv_match times out (msg is None).
TakeoffNoMsg ==
    /\ tkPc = "loop"
    /\ tkElapsed < takeoff_window
    /\ tkElapsed' = tkElapsed + 2
    /\ UNCHANGED <<tkPc, altitude, stable_count, last_alt, tkSample, tkMax,
                   tkRun, tkResult, notTakeoff>>

\* The while condition fails: "Takeoff timeout", return False.
TakeoffTimeout ==
    /\ tkPc = "loop"
    /\ tkElapsed >= takeoff_window
    /\ tkPc' = "done"
    /\ tkResult' = "False"
    /\ UNCHANGED <<altitude, tkElapsed, stable_count, last_alt, tkSample,
                   tkMax, tkRun, notTakeoff>>

NextTakeoff ==
    \/ \E sample \in AltSamples, w \in {0, 1} : TakeoffMsg(sample, w)
    \/ TakeoffNoMsg
    \/ TakeoffTimeout

\* Every iteration ends (recv_match and sleep are bounded), so the loop
\* keeps taking steps while it can.
SpecTakeoff == InitTakeoff /\ [][NextTakeoff]_vars /\ WF_vars(NextTakeoff)

(***************************************************************************)
(* The formation patterns on their own: one pattern called for one count   *)
(* of drones and one centre.                                               *)
(***************************************************************************)
\* Most drones a pattern is called for.
MaxCount == 6

\* The centres move_formation reaches from the initial one in two moves.
Centers == {formation_center_0 \in (-2..2) \X (-2..2) \X (0..4) :
               Abs(formation_center_0[1]) + Abs(formation_center_0[2])
                 + Abs(formation_center_0[3] - 2) <= 2}

InitPattern ==
    /\ pfName \in Patterns
    /\ pfCount \in 0..MaxCount
    /\ \E c \in Centers :
          pfCenter = <<c[1] * move_step, c[2] * move_step, c[3] * move_step>>
    /\ pfOut = NotCalled
    /\ FormationInit
    /\ TakeoffIdle
    /\ CallIdle
    /\ MoveIdle
    /\ MissionIdle

\* self.formations[pfName]() with len(self.drones) = pfCount
PatternCall ==
    /\ ~pfOut.called
    /\ LET r == formations(pfName, pfCount, pfCenter, formation_spacing)
       IN  pfOut' = [called |-> TRUE, exc |-> r.exc, positions |-> r.positions]
    /\ UNCHANGED <<pfName, pfCount, pfCenter, notPattern>>

NextPattern == PatternCall

SpecPattern == InitPattern /\ [][NextPattern]_vars

(***************************************************************************)
(* One call of set_mode or arm on one session, of either implementation:   *)
(* FormationDrone (Drone.py), whose calls go to the MAVROS services, and   *)
(* DroneController (flight_controller.py), whose calls go to the MAVLink   *)
(* connection self.master.                                                 *)
(***************************************************************************)
\* mode_mapping of DroneController.set_mode
mode_mapping == [STABILIZE |-> 0, GUIDED |-> 4, LAND |-> 9, RTL |-> 6,
                 LOITER |-> 5]

\* The names set_mode is called with: the keys of mode_mapping, and names
\* that are no flight mode of either implementation.
ModeNames == DOMAIN mode_mapping \cup {"guided", "FLY", "HOVER"}

\* while time.time() - start_time < 10
arm_window == 10

\* One message or request put on the transport.
Req(what, arg) == [what |-> what, arg |-> arg]

\* A service result read so that no error counts as success (the mutant of
\* service_result).
service_result_no_error(outcome) == Bool(outcome # "nack")

\* future.result() and future.result().success (or .mode_sent): None when
\* the wait timed out, else the flag of the reply.
service_result(outcome) ==
    IF outcome = "timeout" THEN "None" ELSE Bool(outcome = "ok")

InitCall ==
    /\ cImpl \in {"FormationDrone", "DroneController"}
    /\ cMethod \in {"set_mode", "arm", "land"}
    /\ cMode \in (CASE cMethod = "set_mode" -> ModeNames
                    [] cMethod = "arm" -> {""}
                    [] cMethod = "land" -> {"LAND"})
    /\ cConnected \in (IF cImpl = "FormationDrone" THEN BOOLEAN ELSE {TRUE})
    /\ cPc = "call"
    /\ cSent = << >>
    /\ cReply = "none"
    /\ cElapsed = 0
    /\ cRet = "None"
    /\ FormationInit
    /\ TakeoffIdle
    /\ PatternIdle
    /\ MoveIdle
    /\ MissionIdle

\* FormationDrone.set_mode(mode), FormationDrone.arm() and
\* FormationDrone.land() (which is set_mode('LAND') with its result dropped),
\* up to the wait.
FdCall ==
    /\ cPc = "call"
    /\ cImpl = "FormationDrone"
    /\ IF ~cConnected
       THEN /\ cPc' = "done"
            /\ cRet' = IF cMethod = "land" THEN "None" ELSE "False"
            /\ cSent' = cSent
       ELSE /\ cPc' = "spin"
            /\ cRet' = cRet
            /\ cSent' = Append(cSent,
                               IF cMethod = "arm"
                               THEN Req("CommandBool", "True")
                               ELSE Req("SetMode", cMode))
    /\ UNCHANGED <<cImpl, cMethod, cMode, cConnected, cReply, cElapsed,
                   notCall>>

\* spin_until_future_complete runs state_callback on a State message.
FdSpinState(b) ==
    /\ cPc = "spin"
    /\ cConnected' = state_callback(cConnected, b)
    /\ UNCHANGED <<cImpl, cMethod, cMode, cPc, cSent, cReply, cElapsed, cRet,
                   notCall>>

\* spin_until_future_complete returns and the call returns its result.
FdReturn(outcome) ==
    /\ cPc = "spin"
    /\ cPc' = "done"
    /\ cReply' = outcome
    /\ cRet' = IF cMethod = "land" THEN "None" ELSE service_result(outcome)
    /\ UNCHANGED <<cImpl, cMethod, cMode, cConnected, cSent, cElapsed,
                   notCall>>

\* DroneController.set_mode(mode)
DcSetMode ==
    /\ cPc = "call"
    /\ cImpl = "DroneController"
    /\ cMethod = "set_mode"
    /\ cPc' = "done"
    /\ IF cMode \notin DOMAIN mode_mapping
       THEN /\ cRet' = "False"
            /\ cSent' = cSent
       ELSE /\ cRet' = "True"
            /\ cSent' = Append(cSent, Req("set_mode_send", mode_mapping[cMode]))
    /\ UNCHANGED <<cImpl, cMethod, cMode, cConnected, cReply, cElapsed,
                   notCall>>

\* DroneController.arm(): command_long_send, start_time = time.time()
DcArm ==
    /\ cPc = "call"
    /\ cImpl = "DroneController"
    /\ cMethod = "arm"
    /\ cPc' = "loop"
    /\ cSent' = Append(cSent, Req("command_long_send", "ARM_DISARM 1"))
    /\ cElapsed' = 0
    /\ UNCHANGED <<cImpl, cMethod, cMode, cConnected, cReply, cRet, notCall>>

\* DroneController.arm(): recv_match returns a HEARTBEAT after w seconds.
DcArmHeartbeat(armed, w) ==
    /\ cPc = "loop"
    /\ cElapsed < arm_window
    /\ IF armed
       THEN /\ cPc' = "done"
            /\ cReply' = "armed"
            /\ cRet' = "True"
       ELSE /\ cPc' = "loop"
            /\ cReply' = "disarmed"
            /\ cRet' = cRet
    /\ cElapsed' = cElapsed + w
    /\ UNCHANGED <<cImpl, cMethod, cMode, cConnected, cSent, notCall>>

\* DroneController.arm(): recv_match times out after 1 second.
DcArmNoMsg ==
    /\ cPc = "loop"
    /\ cElapsed < arm_window
    /\ cElapsed' = cElapsed + 1
    /\ UNCHANGED <<cImpl, cMethod, cMode, cConnected, cPc, cSent, cReply,
                   cRet, notCall>>

\* DroneController.arm(): the while condition fails, return False.
DcArmTimeout ==
    /\ cPc = "loop"
    /\ cElapsed >= arm_window
    /\ cPc' = "done"
    /\ cRet' = "False"
    /\ UNCHANGED <<cImpl, cMethod, cMode, cConnected, cSent, cReply, cElapsed,
                   notCall>>

\* DroneController.land(): self.set_mode('LAND'), then into `while True`.
DcLand ==
    /\ cPc = "call"
    /\ cImpl = "DroneController"
    /\ cMethod = "land"
    /\ cPc' = "land_loop"
    /\ cSent' = Append(cSent, Req("set_mode_send", mode_mapping[cMode]))
    /\ UNCHANGED <<cImpl, cMethod, cMode, cConnected, cReply, cElapsed, cRet,
                   notCall>>

\* DroneController.land(): one iteration of `while True`, in which
\* recv_match gives a HEARTBEAT ("armed" or "disarmed") or, after its
\* timeout, nothing ("none"); the loop is left only on a HEARTBEAT without
\* the armed flag.
DcLandIteration(msg) ==
    /\ cPc = "land_loop"
    /\ IF msg = "disarmed"
       THEN /\ cPc' = "done"
            /\ cRet' = "True"
            /\ cReply' = msg
       ELSE /\ cPc' = "land_loop"
            /\ cRet' = cRet
            /\ cReply' = IF msg = "none" THEN cReply ELSE msg
    /\ UNCHANGED <<cImpl, cMethod, cMode, cConnected, cSent, cElapsed,
                   notCall>>

NextCall ==
    \/ FdCall
    \/ DcLand
    \/ \E msg \in {"none", "armed", "disarmed"} : DcLandIteration(msg)
    \/ \E b \in BOOLEAN : FdSpinState(b)
    \/ \E outcome \in Outcomes : FdReturn(outcome)
    \/ DcSetMode
    \/ DcArm
    \/ \E armed \in BOOLEAN, w \in {0, 1} : DcArmHeartbeat(armed, w)
    \/ DcArmNoMsg
    \/ DcArmTimeout

SpecCall == InitCall /\ [][NextCall]_vars

(***************************************************************************)
(* FormationDrone.move_to_target on its own: one call for one position,    *)
(* one target and one speed.                                               *)
(***************************************************************************)
\* self.position: the origin (it is never assigned after __init__) and one
\* other point.
MovePositions == {<<0, 0, 0>>, <<100, -200, 1000>>}

\* target - position, in centimetres: at a whole number of centimetres
\* from the position, where the integer root of move_to_target is exact;
\* at 0 cm, at 10 cm (0.1 m) and at 11 cm, and up to 10 m away.
MoveOffsets ==
    {<<0, 0, 0>>, <<10, 0, 0>>, <<6, 8, 0>>, <<0, -10, 0>>, <<0, 6, -8>>,
     <<11, 0, 0>>, <<0, 0, -11>>, <<2, -6, 9>>,
     <<1000, 0, 0>>, <<-1000, 0, 0>>, <<0, 0, 1000>>, <<0, 0, -500>>,
     <<300, 400, 0>>, <<-300, 0, 400>>, <<0, -600, 800>>,
     <<200, -400, 400>>, <<-100, 200, 200>>, <<400, 400, 200>>,
     <<-700, -400, 400>>}

\* speed, in millimetres per second: 1.0 (the default), 0.5, 3.0, 10.0, -5.0
MoveSpeeds == {default_speed, 500, 3000, 10000, -5000}

InitMove ==
    /\ mtPosition \in MovePositions
    /\ \E d \in MoveOffsets :
          mtTarget = <<mtPosition[1] + d[1], mtPosition[2] + d[2],
                       mtPosition[3] + d[3]>>
    /\ mtSpeed \in MoveSpeeds
    /\ mtReported = mtPosition
    /\ mtOut = NoVelocity
    /\ FormationInit
    /\ TakeoffIdle
    /\ PatternIdle
    /\ CallIdle
    /\ MissionIdle

\* drone.move_to_target(mtTarget, mtSpeed): the Twist it publishes
MoveCall ==
    /\ ~mtOut.called
    /\ mtOut' = [called |-> TRUE,
                 v |-> move_to_target(mtPosition, mtTarget, mtSpeed)]
    /\ UNCHANGED <<mtPosition, mtTarget, mtSpeed, mtReported, notMove>>

\* The vehicle reports its position p.  FormationDrone subscribes to
\* mavros/state only: no callback takes the report, and self.position stays
\* what __init__ made it.
MoveTelemetry(p) ==
    /\ ~mtOut.called
    /\ mtReported' = p
    /\ UNCHANGED <<mtPosition, mtTarget, mtSpeed, mtOut, notMove>>

NextMove ==
    \/ MoveCall
    \/ \E p \in MovePositions \cup {mtTarget} : MoveTelemetry(p)

SpecMove == InitMove /\ [][NextMove]_vars

(***************************************************************************)
(* main() of auto_pilot.py: the single-vehicle mission.  DroneController(), *)
(* wait_for_gps, set_mode('GUIDED'), arm, takeoff(5), move_forward(5) and  *)
(* land are called in turn; a falsy result makes main() return, and        *)
(* KeyboardInterrupt or an exception takes it to the except clause, which  *)
(* calls drone.land() if drone exists.  takeoff runs its polling loop (the *)
(* actions TakeoffMsg, TakeoffNoMsg and TakeoffTimeout above); the other   *)
(* calls are one step each.                                                *)
(***************************************************************************)
\* drone.takeoff(5)
mission_altitude == 5

\* The calls of main() that are one step, in order, and what each may give:
\* "ok" (truthy), "fail" (falsy), or it raises ("interrupt", "exception").
\* set_mode('GUIDED') and move_forward return True whenever they return.
MissionCalls == <<"wait_for_gps", "set_mode", "arm", "takeoff",
                  "move_forward", "land">>

MissionResults(name) ==
    IF name \in {"wait_for_gps", "arm"}
    THEN {"ok", "fail", "interrupt", "exception"}
    ELSE {"ok", "interrupt", "exception"}

\* The call after call number n, or "exited" after the last.
MissionAfter(n) == IF n < Len(MissionCalls) THEN MissionCalls[n + 1] ELSE "exited"

InitMission ==
    /\ apPc = "connect"
    /\ apLog = << >>
    /\ apWhy = "none"
    /\ FormationInit
    /\ TakeoffIdle
    /\ PatternIdle
    /\ CallIdle
    /\ MoveIdle

\* drone = DroneController(): if it raises, `drone` is not in locals() and
\* the except clause lands nothing.
MissionConnect(result) ==
    /\ apPc = "connect"
    /\ IF result = "ok"
       THEN /\ apPc' = MissionCalls[1]
            /\ apWhy' = apWhy
            /\ apLog' = apLog \o <<Ev("call", 0, "DroneController"),
                                    Ev("ok", 0, "DroneController")>>
       ELSE /\ apPc' = "exited"
            /\ apWhy' = result
            /\ apLog' = apLog \o <<Ev("call", 0, "DroneController"),
                                    Ev("raise", 0, "DroneController")>>
    /\ UNCHANGED <<tvars, notMission>>

\* Call number n of main(), other than takeoff, from its start to its end.
MissionCall(n, result) ==
    /\ MissionCalls[n] # "takeoff"
    /\ apPc = MissionCalls[n]
    /\ result \in MissionResults(MissionCalls[n])
    /\ CASE result = "ok" ->
              /\ apPc' = MissionAfter(n)
              /\ apWhy' = IF MissionAfter(n) = "exited" THEN "completed"
                                                       ELSE apWhy
              /\ apLog' = apLog \o <<Ev("call", 0, MissionCalls[n]),
                                      Ev("ok", 0, MissionCalls[n])>>
         [] result = "fail" ->
              /\ apPc' = "exited"
              /\ apWhy' = "returned"
              /\ apLog' = apLog \o <<Ev("call", 0, MissionCalls[n]),
                                      Ev("fail", 0, MissionCalls[n])>>
         [] OTHER ->
              /\ apPc' = "handler"
              /\ apWhy' = result
              /\ apLog' = apLog \o <<Ev("call", 0, MissionCalls[n]),
                                      Ev("raise", 0, MissionCalls[n])>>
    /\ UNCHANGED <<tvars, notMission>>

\* drone.takeoff(5): MAV_CMD_NAV_TAKEOFF is sent and the polling loop begins.
MissionTakeoffCall ==
    /\ apPc = "takeoff"
    /\ tkPc = "idle"
    /\ tkPc' = "loop"
    /\ altitude' = mission_altitude
    /\ tkElapsed' = 0
    /\ stable_count' = 0
    /\ last_alt' = 0
    /\ apLog' = apLog \o <<Ev("call", 0, "takeoff")>>
    /\ UNCHANGED <<tkSample, tkMax, tkRun, tkResult, apPc, apWhy, notMission>>

\* drone.takeoff(5) has returned: `if not drone.takeoff(5): return`
MissionTakeoffReturn ==
    /\ apPc = "takeoff"
    /\ tkPc = "done"
    /\ IF tkResult = "True"
       THEN /\ apPc' = "move_forward"
            /\ apWhy' = apWhy
            /\ apLog' = apLog \o <<Ev("ok", 0, "takeoff")>>
       ELSE /\ apPc' = "exited"
            /\ apWhy' = "returned"
            /\ apLog' = apLog \o <<Ev("fail", 0, "takeoff")>>
    /\ tkPc' = "idle"
    /\ UNCHANGED <<altitude, tkElapsed, stable_count, last_alt, tkSample,
                   tkMax, tkRun, tkResult, notMission>>

\* KeyboardInterrupt or an exception while drone.takeoff(5) polls.
MissionTakeoffAbort(kind) ==
    /\ apPc = "takeoff"
    /\ tkPc = "loop"
    /\ tkPc' = "idle"
    /\ apPc' = "handler"
    /\ apWhy' = kind
    /\ apLog' = apLog \o <<Ev("raise", 0, "takeoff")>>
    /\ UNCHANGED <<altitude, tkElapsed, stable_count, last_alt, tkSample,
                   tkMax, tkRun, tkResult, notMission>>

\* The except clause: `if 'drone' in locals(): drone.land()`; what is
\* raised inside it leaves main().
MissionHandler(result) ==
    /\ apPc = "handler"
    /\ apPc' = "exited"
    /\ apWhy' = IF result = "ok" THEN apWhy ELSE "raised"
    /\ apLog' = apLog \o <<Ev("call", 0, "land"),
                            Ev(IF result = "ok" THEN "ok" ELSE "raise", 0,
                               "land")>>
    /\ UNCHANGED <<tvars, notMission>>

NextMission ==
    \/ \E result \in {"ok", "interrupt", "exception"} : MissionConnect(result)
    \/ \E n \in 1..Len(MissionCalls),
          result \in {"ok", "fail", "interrupt", "exception"} :
            MissionCall(n, result)
    \/ MissionTakeoffCall
    \/ \E sample \in AltSamples, w \in {0, 1} : TakeoffMsg(sample, w)
    \/ TakeoffNoMsg
    \/ TakeoffTimeout
    \/ MissionTakeoffReturn
    \/ \E kind \in {"interrupt", "exception"} : MissionTakeoffAbort(kind)
    \/ \E result \in {"ok", "interrupt", "exception"} : MissionHandler(result)

SpecMission == InitMission /\ [][NextMission]_vars

(***************************************************************************)
(* C1.  For every count of registered drones n >= 0 (0 included) and each  *)
(* of the five patterns, the pattern function returns a sequence of        *)
(* exactly n positions (each an x, y, z triple) and does not raise.        *)
(***************************************************************************)
C1_PatternLength ==
    pfOut.called =>
        /\ ~pfOut.exc
        /\ Len(pfOut.positions) = pfCount
        /\ \A k \in 1..Len(pfOut.positions) : Len(pfOut.positions[k]) = 3

\* The circle pattern has been called with no drone registered.
C1_Witness ==
    /\ pfOut.called
    /\ pfName = "circle"
    /\ pfCount = 0
    /\ pfOut.positions = << >>

(***************************************************************************)
(* Reading oplog.                                                          *)
(***************************************************************************)
\* The drones of the entries of log that satisfy Test, in order.
DronesOf(log, Test(_)) ==
    LET sel == SelectSeq(log, Test) IN [j \in 1..Len(sel) |-> sel[j].k]

\* The drones method `what` was called on, in order.
Called(log, what) == DronesOf(log, LAMBDA e : e.ev = "call" /\ e.arg = what)

\* The drones a request `what` was sent to, in order.
Requested(log, what) == DronesOf(log, LAMBDA e : e.ev = "req" /\ e.arg = what)

\* 1, 2, ..., m
UpTo(m) == [j \in 1..m |-> j]

\* Where in log the entry e stands.
Places(log, e) == {j \in 1..Len(log) : log[j] = e}

\* The operation has returned to main() (which may have exited since).
Returned == pc \in {"prompt", "exited"}

(***************************************************************************)
(* C2.  arm_all calls arm on every registered drone in registration order, *)
(* also after an earlier drone's arm failed, and returns True if and only  *)
(* if every drone's arm succeeded.                                         *)
(***************************************************************************)
C2_ArmAll ==
    op = "arm_all" =>
        /\ pc = "spin" => Called(oplog, "arm") = UpTo(idx)
        /\ pc = "prompt" =>
              /\ Called(oplog, "arm") = UpTo(nDrones)
              /\ ret \in {"True", "False"}
              /\ ret = "True" <=>
                    \A k \in Drones : Places(oplog, Ev("ok", k, "arm")) # {}
              /\ \A k \in Drones :
                    Cardinality(Places(oplog, Ev("ok", k, "arm")))
                      + Cardinality(Places(oplog, Ev("fail", k, "arm"))) = 1

\* Three drones, the second of which did not acknowledge: the first and
\* the third were sent an arm request all the same, and arm_all gave False.
C2_Witness ==
    /\ pc = "prompt"
    /\ op = "arm_all"
    /\ nDrones = 3
    /\ ret = "False"
    /\ oplog = <<Ev("call", 1, "arm"), Ev("req", 1, "arm"), Ev("ok", 1, "arm"),
                 Ev("call", 2, "arm"), Ev("req", 2, "arm"), Ev("fail", 2, "arm"),
                 Ev("call", 3, "arm"), Ev("req", 3, "arm"), Ev("ok", 3, "arm")>>

(***************************************************************************)
(* C3.  takeoff_formation fails fast: once the takeoff of drone k has      *)
(* returned failure, takeoff_formation has returned False, and no request  *)
(* (mode, arm or takeoff) was sent to a drone registered after k.          *)
(***************************************************************************)
C3_TakeoffFailFast ==
    op = "takeoff_formation" =>
        \A k \in Drones :
            Places(oplog, Ev("fail", k, "takeoff")) # {} =>
                /\ pc = "prompt"
                /\ ret = "False"
                /\ oplog[Len(oplog)] = Ev("fail", k, "takeoff")
                /\ \A j \in 1..Len(oplog) :
                      oplog[j].ev \in {"req", "call"} => oplog[j].k <= k

\* The second of three drones failed its takeoff command after the first
\* had succeeded.
C3_Witness ==
    /\ pc = "prompt"
    /\ op = "takeoff_formation"
    /\ nDrones = 3
    /\ ret = "False"
    /\ Places(oplog, Ev("ok", 1, "takeoff")) # {}
    /\ Places(oplog, Ev("req", 2, "takeoff")) # {}
    /\ Places(oplog, Ev("fail", 2, "takeoff")) # {}

(***************************************************************************)
(* C4.  takeoff_formation takes the drones off strictly in registration    *)
(* order: the first drone starts with no delay before it; the first        *)
(* command to the next drone is sent only after the previous drone's       *)
(* takeoff returned success and a time.sleep(1.0) after that; True is      *)
(* returned only after a time.sleep(10) that follows the last drone's      *)
(* success.                                                                *)
(***************************************************************************)
\* The first entry of log about drone k.
FirstOf(log, k) ==
    CHOOSE j \in 1..Len(log) :
        /\ log[j].ev # "sleep" /\ log[j].k = k
        /\ \A i \in 1..(j - 1) : ~(log[i].ev # "sleep" /\ log[i].k = k)

Started(log) == {k \in Drones : \E j \in 1..Len(log) :
                                   log[j].ev # "sleep" /\ log[j].k = k}

C4_TakeoffOrder ==
    op = "takeoff_formation" =>
        /\ Called(oplog, "takeoff") = UpTo(Len(Called(oplog, "takeoff")))
        /\ 1 \in Started(oplog) => oplog[1] = Ev("call", 1, "takeoff")
        /\ \A k \in Started(oplog) \ {1} :
              LET j == FirstOf(oplog, k)
              IN  /\ j > 2
                  /\ oplog[j] = Ev("call", k, "takeoff")
                  /\ oplog[j - 1] = Sleep(10)
                  /\ oplog[j - 2] = Ev("ok", k - 1, "takeoff")
        /\ \A j \in 1..Len(oplog) :
              (oplog[j].ev = "req" /\ j > 1 /\ oplog[j - 1].ev # "call")
                  => oplog[j - 1] = Sleep(5)
        /\ (pc = "prompt" /\ ret = "True") =>
              /\ oplog[Len(oplog)] = Sleep(100)
              /\ Started(oplog) = Drones
              /\ nDrones > 0 =>
                    oplog[Len(oplog) - 1] = Ev("ok", nDrones, "takeoff")

\* Three drones have taken off and takeoff_formation has returned True.
C4_Witness ==
    /\ pc = "prompt"
    /\ op = "takeoff_formation"
    /\ nDrones = 3
    /\ ret = "True"
    /\ Requested(oplog, "takeoff") = <<1, 2, 3>>

(***************************************************************************)
(* C5.  land_formation sends a land command to every registered drone, in  *)
(* registration order, whether or not earlier lands succeeded and whatever *)
(* each drone's connection state, with a time.sleep(2.0) after each drone  *)
(* but the last; when it returns, formation_active is False.               *)
(***************************************************************************)
C5_LandEveryDrone ==
    (op = "land_formation" /\ Returned) =>
        /\ Requested(oplog, "LAND") = UpTo(nDrones)
        /\ ~formation_active

\* What holds of the code: land() is called on every drone in order, with
\* the stagger after each but the last, and formation_active is cleared;
\* the request goes out to the drones that are connected at their turn.
C5_LandCalledOnEveryDrone ==
    (op = "land_formation" /\ Returned) =>
        /\ Called(oplog, "land") = UpTo(nDrones)
        /\ ~formation_active
        /\ \A k \in Drones :
              LET j == CHOOSE i \in 1..Len(oplog) : oplog[i] = Ev("call", k, "land")
                  n == IF oplog[j + 1] = Ev("req", k, "LAND") THEN j + 1 ELSE j
              IN  IF k < nDrones THEN oplog[n + 1] = Sleep(20)
                                 ELSE oplog[n + 1] = Ev("inactive", 0, "")

(***************************************************************************)
(* C6.  However main() leaves its try block once the controller exists     *)
(* (quit, KeyboardInterrupt during a command, wait_for_connections        *)
(* failing, an exception), stop_formation runs, then land_formation, and   *)
(* only then are the node destroyed and rclpy shut down.                   *)
(***************************************************************************)
C6_ShutdownOrder ==
    /\ why # "none" => fin
    /\ fin =>
          /\ Len(oplog) >= 1
          /\ oplog[1] = Ev("stop_formation", 0, "")
          /\ ~formation_active
          /\ pc \in {"spin", "exited"}
          /\ pc = "spin" =>
                /\ Places(oplog, Ev("destroy_node", 0, "")) = {}
                /\ Places(oplog, Ev("shutdown", 0, "")) = {}
    /\ pc = "exited" =>
          /\ fin
          /\ Called(oplog, "land") = UpTo(nDrones)
          /\ Len(oplog) >= 4
          /\ oplog[Len(oplog) - 2] = Ev("inactive", 0, "")
          /\ oplog[Len(oplog) - 1] = Ev("destroy_node", 0, "")
          /\ oplog[Len(oplog)] = Ev("shutdown", 0, "")
          /\ Places(oplog, Ev("destroy_node", 0, "")) = {Len(oplog) - 1}

\* A KeyboardInterrupt during a command with three drones: main() has
\* exited, and the three were sent LAND before the node was destroyed.
C6_Witness ==
    /\ pc = "exited"
    /\ why = "interrupt_in_command"
    /\ nDrones = 3
    /\ Requested(oplog, "LAND") = <<1, 2, 3>>

(***************************************************************************)
(* C7.  While formation_active is False, a tick of the control loop does   *)
(* nothing: it publishes no velocity setpoint and changes no drone's       *)
(* target_position.                                                        *)
(***************************************************************************)
C7_InactiveTickNoOp ==
    [][(lastAct' = "tick" /\ ~formation_active)
          => (pub' = << >> /\ target_position' = target_position)]_vars

\* A tick has run with the formation stopped, after ticks that had set the
\* targets while it was active.
C7_Witness ==
    /\ lastAct = "tick"
    /\ ~formation_active
    /\ nDrones = 3
    /\ target_position[1] # <<0, 0, 0>>

(***************************************************************************)
(* C8.  While formation_active is True, one tick of the control loop       *)
(* publishes exactly one velocity setpoint to each registered drone and    *)
(* sets drone k's target_position to the k-th position of the current      *)
(* pattern, computed from the current centre and spacing.                  *)
(***************************************************************************)
C8_ActiveTick ==
    (lastAct = "tick" /\ formation_active) =>
        /\ Len(pub) = nDrones
        /\ \A k \in Drones :
              /\ pub[k].k = k
              /\ target_position[k] =
                    formations(current_formation, nDrones, formation_center,
                               formation_spacing).positions[k]

\* A tick has run for three drones in the diamond pattern around a centre
\* that was moved.
C8_Witness ==
    /\ lastAct = "tick"
    /\ formation_active
    /\ nDrones = 3
    /\ current_formation = "diamond"
    /\ formation_center # <<0, 0, 1000>>
    /\ Len(pub) = 3

(***************************************************************************)
(* C9.  stop_formation sets formation_active to False and at once sends a  *)
(* zero velocity setpoint to every registered drone; called twice in a     *)
(* row it does so both times.                                              *)
(***************************************************************************)
C9_Stop ==
    lastAct = "stop_formation" =>
        /\ stopRun >= 1
        /\ ~formation_active
        /\ pub = [k \in Drones |-> Setpoint(k, <<0, 0, 0>>)]

\* stop_formation has run twice in a row with three drones.
C9_Witness ==
    /\ lastAct = "stop_formation"
    /\ stopRun = 2
    /\ nDrones = 3
    /\ pc = "prompt"

(***************************************************************************)
(* C10.  The altitude polling loop of takeoff returns True as soon as a    *)
(* sample is at least 0.9 x the target altitude (9.1 m against 10 m); if   *)
(* every sample stays below what either success test asks for (stuck at    *)
(* 5 m against 10 m) the loop ends once the 30 seconds are over and        *)
(* takeoff returns False.                                                  *)
(***************************************************************************)
C10_Safety ==
    /\ (tkSample # -1 /\ 10 * tkSample >= 9 * 1000 * altitude)
          => (tkPc = "done" /\ tkResult = "True")
    /\ (tkPc = "done" /\ 100 * tkMax < 85 * 1000 * altitude)
          => (tkResult = "False" /\ tkElapsed >= takeoff_window)
    /\ tkPc = "loop" => tkResult = "None"
    /\ tkElapsed <= takeoff_window + 1

C10_TakeoffPolling == []C10_Safety /\ <>(tkPc = "done")

\* Stuck at 5 m against 10 m until the 30 seconds were over: takeoff has
\* returned False, though the altitude had long been stable.
C10_Witness ==
    /\ tkPc = "done"
    /\ tkResult = "False"
    /\ altitude = 10
    /\ tkMax = 5000
    /\ last_alt = 5000
    /\ stable_count >= 3
    /\ tkElapsed >= takeoff_window

(***************************************************************************)
(* C11.  takeoff returns True on the stability test only when each of the  *)
(* last three samples came within 0.1 m of the sample before it and the    *)
(* current sample is at least 0.85 x the target altitude; so takeoff never *)
(* returns True on a sample below 0.85 x the target.                       *)
(***************************************************************************)
C11_StabilityPath ==
    tkResult = "True" =>
        /\ tkPc = "done"
        /\ tkSample # -1
        /\ 100 * tkSample >= 85 * 1000 * altitude
        /\ 10 * tkSample < 9 * 1000 * altitude =>
              /\ tkRun >= 3
              /\ stable_count >= 3

\* takeoff(10) has returned True at 8.55 m, below the 9 m of the 90% test,
\* on the fourth of four samples between 8.5 m and 8.55 m.
C11_Witness ==
    /\ tkResult = "True"
    /\ altitude = 10
    /\ tkSample = 8550
    /\ tkMax = 8550
    /\ tkRun = 3

(***************************************************************************)
(* C12.  FormationDrone.takeoff runs set_mode('GUIDED'), then arm(), then  *)
(* the takeoff command, in that order: the arm request is sent only after  *)
(* set_mode('GUIDED') returned success, the takeoff request only after     *)
(* arm() returned success, and when a sub-step fails nothing more is sent  *)
(* and takeoff returns False.                                              *)
(***************************************************************************)
C12_TakeoffSequence ==
    op = "takeoff_formation" =>
        \A j \in 1..Len(oplog) :
            LET e == oplog[j]
            IN  /\ e.ev = "call" =>
                      (j = Len(oplog)
                       \/ oplog[j + 1] \in {Ev("req", e.k, "GUIDED"),
                                            Ev("fail", e.k, "GUIDED")})
                /\ e = Ev("req", e.k, "GUIDED") =>
                      oplog[j - 1] = Ev("call", e.k, "takeoff")
                /\ e = Ev("req", e.k, "arm") =>
                      /\ j > 3
                      /\ oplog[j - 1] = Sleep(5)
                      /\ oplog[j - 2] = Ev("ok", e.k, "GUIDED")
                      /\ oplog[j - 3] = Ev("req", e.k, "GUIDED")
                /\ e = Ev("req", e.k, "takeoff") =>
                      /\ j > 3
                      /\ oplog[j - 1] = Sleep(5)
                      /\ oplog[j - 2] = Ev("ok", e.k, "arm")
                      /\ oplog[j - 3] = Ev("req", e.k, "arm")
                /\ (e.ev = "fail" /\ e.arg \in {"GUIDED", "arm"}) =>
                      /\ j + 1 = Len(oplog)
                      /\ oplog[j + 1] = Ev("fail", e.k, "takeoff")
                      /\ pc = "prompt"
                      /\ ret = "False"

\* The first of three drones took off; the second's set_mode('GUIDED')
\* succeeded, its arm request was refused, and no takeoff request went to
\* it: takeoff returned False.
C12_Witness ==
    /\ op = "takeoff_formation"
    /\ pc = "prompt"
    /\ nDrones = 3
    /\ ret = "False"
    /\ Requested(oplog, "takeoff") = <<1>>
    /\ Requested(oplog, "arm") = <<1, 2>>
    /\ Places(oplog, Ev("fail", 2, "arm")) # {}

(***************************************************************************)
(* C13.  No arm request and no takeoff request is sent to a drone while    *)
(* its self.connected is False, also when the connection is lost part-way  *)
(* through a takeoff (state_callback runs during the waits of set_mode and *)
(* arm).  The step that sends a request leaves the thread in the wait for  *)
(* its reply and does not change connected.                                *)
(***************************************************************************)
C13_NoRequestWhileDisconnected ==
    (/\ pc = "spin"
     /\ stage \in {"arm", "takeoff"}
     /\ lastAct \notin {"tick", "state_callback"})
        => connected[idx]

(***************************************************************************)
(* C14.  arm() on a session that is not connected returns False without    *)
(* sending any request, and arm() returns success only when a positive     *)
(* acknowledgment was received: when the wait times out with no reply, or  *)
(* the reply is negative, the result is a failure (False or None).         *)
(* DroneController.arm takes a HEARTBEAT with the armed flag as the        *)
(* acknowledgment and returns False when none came within its 10 seconds.  *)
(***************************************************************************)
C14_Safety ==
    cMethod = "arm" =>
        /\ cRet = "True" => cReply \in {"ok", "armed"}
        /\ (cPc = "done" /\ cReply \in {"nack", "timeout"}) =>
              cRet \in {"False", "None"}
        /\ (cPc = "done" /\ cImpl = "FormationDrone" /\ cReply = "none") =>
              (cSent = << >> /\ cRet = "False")
        /\ (cPc = "done" /\ cImpl = "DroneController" /\ cReply # "armed") =>
              (cRet = "False" /\ cElapsed >= arm_window)

C14_NotConnected ==
    (cPc = "call" /\ cMethod = "arm" /\ cImpl = "FormationDrone"
     /\ ~cConnected)
        => (cPc' = "done" /\ cRet' = "False" /\ cSent' = << >>)

C14_Arm == []C14_Safety /\ [][C14_NotConnected]_vars

\* FormationDrone.arm() sent its request and the wait timed out: the call
\* returned None.
C14_Witness ==
    /\ cMethod = "arm"
    /\ cImpl = "FormationDrone"
    /\ cPc = "done"
    /\ cReply = "timeout"
    /\ cSent = <<Req("CommandBool", "True")>>
    /\ cRet = "None"

(***************************************************************************)
(* C15.  set_mode called with a name that is no recognized mode returns    *)
(* False without sending anything over the transport, in the formation     *)
(* session (FormationDrone) and in the single-vehicle controller           *)
(* (DroneController) alike.                                                *)
(***************************************************************************)
C15_UnknownModeNotSent ==
    (cMethod = "set_mode" /\ cMode \notin DOMAIN mode_mapping) =>
        /\ cSent = << >>
        /\ cPc = "done" => cRet = "False"

(***************************************************************************)
(* C16.  set_formation with a name that is none of the five patterns       *)
(* returns False and leaves self.current_formation as it was; so after any *)
(* calls of set_formation the current formation is one of the five         *)
(* patterns, and the lookup self.formations[self.current_formation] of a   *)
(* tick cannot fail.                                                       *)
(***************************************************************************)
C16_Safety ==
    /\ current_formation \in Patterns
    /\ lastAct = "set_formation" =>
          /\ oplog[1].arg \in Patterns =>
                (ret = "True" /\ current_formation = oplog[1].arg)
          /\ oplog[1].arg \notin Patterns => ret = "False"

C16_UnknownKeepsCurrent ==
    (lastAct' = "set_formation" /\ oplog'[1].arg \notin Patterns)
        => current_formation' = current_formation

C16_SetFormation == []C16_Safety /\ [][C16_UnknownKeepsCurrent]_vars

\* set_formation('spiral') has just returned False, the formation set
\* before it still being the current one.
C16_Witness ==
    /\ lastAct = "set_formation"
    /\ oplog = <<Ev("call", 0, "spiral")>>
    /\ ret = "False"
    /\ current_formation = "circle"

(***************************************************************************)
(* C17.  move_formation(dx, dy, dz) changes only self.formation_center, to *)
(* which it adds dx, dy, dz componentwise: it publishes nothing and leaves *)
(* formation_active, the current formation and every drone's               *)
(* target_position as they were (the spacing is never assigned).  On the   *)
(* next active tick every drone's target is its target of before the move  *)
(* translated by (dx, dy, dz), whatever the pattern.                       *)
(***************************************************************************)
Translate(p, d) == <<p[1] + d[1], p[2] + d[2], p[3] + d[3]>>

C17_MoveOnlyCenter ==
    nMoves' # nMoves =>
        /\ lastAct' = "move_formation"
        /\ oplog'[1].arg \in Moves
        /\ formation_center' = Translate(formation_center, oplog'[1].arg)
        /\ pub' = << >>
        /\ UNCHANGED <<nDrones, connected, position, target_position,
                       formation_active, current_formation>>

\* The targets are those a tick set before a move by d.
SetBeforeMove(d) ==
    target_position =
        formations(current_formation, nDrones,
                   Translate(formation_center, <<-d[1], -d[2], -d[3]>>),
                   formation_spacing).positions

C17_TickTranslates ==
    (lastAct' = "tick" /\ formation_active /\ nDrones > 0) =>
        \A d \in Moves :
            SetBeforeMove(d) =>
                target_position' =
                    [k \in Drones |-> Translate(target_position[k], d)]

C17_MoveFormation == [][C17_MoveOnlyCenter /\ C17_TickTranslates]_vars

\* Three drones in the triangle pattern, the formation active and its
\* centre moved up by 5 m: a tick has set the targets around the new centre.
C17_Witness ==
    /\ lastAct = "tick"
    /\ formation_active
    /\ nDrones = 3
    /\ nMoves = 1
    /\ current_formation = "triangle"
    /\ formation_center = <<0, 0, 1500>>
    /\ target_position[2] = <<-500, -500, 1500>>

(***************************************************************************)
(* C18.  move_to_target publishes the zero velocity when the distance from *)
(* the position to the target is at most 0.1 m; otherwise it publishes the *)
(* unit direction times the speed, each axis clamped on its own to         *)
(* [-3.0, 3.0] m/s.  From (0, 0, 0) to (10, 0, 0) at speed 1.0 the         *)
(* velocity is (1, 0, 0), and whatever the speed no component exceeds 3.0  *)
(* in magnitude.  (Velocities are whole millimetres per second: a          *)
(* component that is not clamped is speed * d / distance cut to a whole    *)
(* number.)                                                                *)
(***************************************************************************)
C18_MoveToTarget ==
    mtOut.called =>
        LET d == [a \in 1..3 |-> mtTarget[a] - mtPosition[a]]
            sq == d[1] * d[1] + d[2] * d[2] + d[3] * d[3]
            dist == CHOOSE n \in 0..2000 : n * n <= sq /\ (n + 1) * (n + 1) > sq
            v == mtOut.v
        IN  /\ dist * dist = sq
            /\ sq <= 10 * 10 => v = <<0, 0, 0>>
            /\ sq > 10 * 10 =>
                  \A a \in 1..3 :
                      /\ v[a] <= 3000 /\ v[a] >= -3000
                      /\ (v[a] < 3000 /\ v[a] > -3000) =>
                            Abs(v[a] * dist - d[a] * mtSpeed) < dist
                      /\ v[a] = 3000 => d[a] * mtSpeed >= 3000 * dist
                      /\ v[a] = -3000 => d[a] * mtSpeed <= -3000 * dist
            /\ (mtPosition = <<0, 0, 0>> /\ mtTarget = <<1000, 0, 0>>
                   /\ mtSpeed = 1000) => v = <<1000, 0, 0>>

\* At speed 10.0 towards a target 2 m, 4 m and 4 m away along the axes, the
\* velocity (3.33, -6.67, 6.67) was clamped to (3, -3, 3).
C18_Witness ==
    /\ mtOut.called
    /\ mtPosition = <<0, 0, 0>>
    /\ mtTarget = <<200, -400, 400>>
    /\ mtSpeed = 10000
    /\ mtOut.v = <<3000, -3000, 3000>>

(***************************************************************************)
(* C19.  The line pattern puts slot i at                                   *)
(* centre + ((i - count/2) * spacing, 0, 0), count/2 being the real        *)
(* quotient, for every count and every i < count.  With count = 4,         *)
(* spacing = 5 and centre (0, 0, 10) the x-coordinates are -10, -5, 0, 5   *)
(* and every y and z is the centre's.                                      *)
(***************************************************************************)
C19_Line ==
    (pfOut.called /\ pfName = "line") =>
        /\ Len(pfOut.positions) = pfCount
        /\ \A k \in 1..Len(pfOut.positions) :
              LET i == k - 1
                  p == pfOut.positions[k]
              IN  /\ 2 * (p[1] - pfCenter[1])
                        = (2 * i - pfCount) * formation_spacing
                  /\ p[2] = pfCenter[2]
                  /\ p[3] = pfCenter[3]
        /\ (pfCount = 4 /\ pfCenter = <<0, 0, 1000>>) =>
              pfOut.positions = << <<-1000, 0, 1000>>, <<-500, 0, 1000>>,
                                   <<0, 0, 1000>>, <<500, 0, 1000>> >>

\* The line of three drones around a centre moved to the left: the slots
\* are 7.5 m and 2.5 m behind the centre and 2.5 m ahead of it.
C19_Witness ==
    /\ pfOut.called
    /\ pfName = "line"
    /\ pfCount = 3
    /\ pfCenter = <<0, 500, 1000>>
    /\ pfOut.positions = << <<-750, 500, 1000>>, <<-250, 500, 1000>>,
                            <<250, 500, 1000>> >>

(***************************************************************************)
(* C20.  The tick of the control loop does not run while a sequential      *)
(* operation waits (for the reply to a mode, arm or takeoff request, or    *)
(* for the connections): between the start and the return of set_mode,     *)
(* arm, takeoff and wait_for_connections the control loop publishes no     *)
(* velocity setpoint, even when formation_active is True.                  *)
(***************************************************************************)
C20_NoSetpointWhileWaiting ==
    (pc \in {"spin", "wfc"} /\ lastAct = "tick") => pub = << >>

(***************************************************************************)
(* C21.  Once land_formation has sent the land command to a drone, the     *)
(* control loop sends that drone no velocity setpoint other than zero      *)
(* until start_formation is called again, also when land_formation was     *)
(* called with formation_active True (which it clears only after the last  *)
(* drone's land).                                                          *)
(***************************************************************************)
C21_NoSetpointAfterLand ==
    (op = "land_formation" /\ lastAct = "tick") =>
        \A j \in 1..Len(pub) :
            (\E i \in 1..Len(oplog) : oplog[i] = Ev("req", pub[j].k, "LAND"))
                => pub[j].v = <<0, 0, 0>>

(***************************************************************************)
(* C22.  A drone's self.position follows its position telemetry, so that   *)
(* move_to_target measures the distance from the position the vehicle last *)
(* reported: a vehicle reported within 0.1 m of its target is sent the     *)
(* zero velocity.                                                          *)
(***************************************************************************)
C22_PositionFromTelemetry ==
    /\ mtPosition = mtReported
    /\ mtOut.called =>
          LET dx == mtTarget[1] - mtReported[1]
              dy == mtTarget[2] - mtReported[2]
              dz == mtTarget[3] - mtReported[3]
          IN  dx * dx + dy * dy + dz * dz <= 10 * 10
                  => mtOut.v = <<0, 0, 0>>

(***************************************************************************)
(* C23.  land() sends the mode change to LAND and returns without waiting  *)
(* for telemetry to confirm that the vehicle has disarmed: it is never in  *)
(* a wait for a HEARTBEAT, and its return does not depend on one (so it    *)
(* returns even if no disarmed HEARTBEAT ever comes).                      *)
(***************************************************************************)
C23_LandDoesNotWait ==
    cMethod = "land" =>
        /\ cPc # "land_loop"
        /\ cPc = "done" => cReply \notin {"armed", "disarmed"}

(***************************************************************************)
(* C24.  In the single-vehicle mission, every way main() can end after     *)
(* the arm step succeeded (takeoff failing or timing out, the move         *)
(* failing, KeyboardInterrupt, an exception, normal completion) calls      *)
(* drone.land() before the program exits.                                  *)
(***************************************************************************)
C24_MissionLands ==
    (apPc = "exited" /\ \E i \in 1..Len(apLog) : apLog[i] = Ev("ok", 0, "arm"))
        => \E j \in 1..Len(apLog) : apLog[j] = Ev("call", 0, "land")

(***************************************************************************)
(* C25.  wait_for_connections returns True only when every added drone is  *)
(* connected at the check that returns, and never while a drone is         *)
(* disconnected; with no drone added it returns True at once, before any   *)
(* callback has run; it returns False only when the timeout has elapsed,   *)
(* and once the timeout has elapsed it stays in its loop no longer.        *)
(***************************************************************************)
C25_Returned ==
    /\ (lastAct = "wait_for_connections" /\ pc = "prompt") =>
            /\ ret = "True"
            /\ \A k \in 1..nDrones : connected[k]
    /\ (pc = "wfc" /\ nDrones = 0) =>
            elapsed = 0 /\ lastAct = "wait_for_connections"
    /\ pc = "wfc" => elapsed <= wfc_timeout

C25_Step ==
    pc = "wfc" =>
        /\ pc' = "prompt" =>
                /\ ret' = "True"
                /\ lastAct' = "wait_for_connections"
                /\ elapsed < wfc_timeout
                /\ connected' = connected
                /\ \A k \in 1..nDrones : connected[k]
        /\ (pc' # "wfc" /\ why' = "wfc_failed") =>
                /\ elapsed >= wfc_timeout
                /\ ret' # "True"
        /\ elapsed >= wfc_timeout => (pc' # "wfc" /\ pc' # "prompt")
        /\ nDrones = 0 => (pc' # "wfc" /\ why' # "wfc_failed")

C25_WaitForConnections == []C25_Returned /\ [][C25_Step]_vars

\* wait_for_connections has returned True for three drones, the last of
\* them connected by a state callback run in its spin_once.
C25_Witness ==
    /\ lastAct = "wait_for_connections"
    /\ pc = "prompt"
    /\ ret = "True"
    /\ nDrones = 3
    /\ \A k \in 1..nDrones : connected[k]

=============================================================================
